---- MODULE Spec2Model ----
(***************************************************************************)
(* Feed ingestion pipeline of spur-enrichment-for-splunk                  *)
(* (bin/spurfeedingest.py): the per-feed-type lock file, the checkpoint    *)
(* files and one run of process_feed, step by step.                        *)
(*                                                                         *)
(* One feed-type is modelled (a dated record feed such as "anonymous").    *)
(* Every runner is a separate OS process invoked by the host scheduler.    *)
(* A step of a runner is one system call of the lock protocol, one         *)
(* network request, or one iteration of the record loop.                   *)
(***************************************************************************)
EXTENDS Integers, Sequences, FiniteSets

(* ---------------------------- bounds ---------------------------------- *)

\* Lines of a payload.
MaxLines == 3
\* Records between two periodic checkpoint writes (10000 in the source,
\* spurfeedingest.py:673 and :740, scaled down to the size of the payloads).
CheckpointInterval == 2
\* Clock ticks per UTC day; max_age_seconds (24 hours) is one day of ticks.
TicksPerDay == 2
\* Invocations of process_feed in one behaviour.
MaxRuns == 2
\* Entries of the checkpoint directory when file names are compared.
MaxEntries == 2

(* ---------------------------- universe -------------------------------- *)

Procs == {"p1", "p2", "p3"}
NoProc == "none"

\* Generation tokens (x-goog-generation) of the releases, and the fallback.
Releases == {"g1"}
\* The generation of the object after the service has written it again at
\* the same location.
Republished == "g2"
Unknown == "unknown"
Idents == Releases \cup {Republished, Unknown}

\* metadata["location"]: the path the latest-pointer names; every release
\* of the model is published there.
LatestLocation == "latest"
NoLocation == "none"

\* The feed-type of the input stanza: a dated record feed, or the rolling
\* realtime variant.
Realtime == "anonymous-residential/realtime"
FeedTypes == {"anonymous", Realtime}

\* The feed-type of the geo database, handled by process_geo_feed.
Geo == "ipgeo"

\* A feed_type value of a stanza that is none of the six allowed ones.
Bogus == "bogus"

\* What the host's secret store gives for the API token: a token, the
\* empty string, or no secret of that realm and name at all.
ValidToken == "tok"
EmptyToken == ""
MissingToken == "missing"
Tokens == {ValidToken, EmptyToken, MissingToken}

\* The checkpoint files of the feed-type: <feed_type>_<identifier>.txt for
\* every identifier, and the legacy <feed_type>.txt.
Legacy == "legacy"
Files == Idents \cup {Legacy}

\* A line of the decompressed payload: a JSON document or not.
LineKinds == {"ok", "bad"}

MaxTime == TicksPerDay + 1
NoDate == -1
NoIno == 0
NoTemp == "none"
Inodes == 1..(Cardinality(Procs) + 1)

RECURSIVE SeqsUpTo(_)
SeqsUpTo(n) ==
    IF n = 0 THEN {<< >>}
    ELSE LET shorter == SeqsUpTo(n - 1)
         IN  shorter \cup {Append(s, k) : s \in {t \in shorter : Len(t) = n - 1},
                                          k \in LineKinds}

\* Payloads: MaxLines lines with at most one unparseable line.
Payloads ==
    {s \in SeqsUpTo(MaxLines) :
        /\ Len(s) = MaxLines
        /\ Cardinality({i \in 1..Len(s) : s[i] = "bad"}) <= 1}

VARIABLES
    now,        \* the wall clock, in ticks
    lockFile,   \* the lock file of the feed-type: its inode, mtime and body
    ckpt,       \* the checkpoint files of the feed-type, by identifier
    release,    \* generation of the release the remote service serves
    payload,    \* the lines of that release
    sink,       \* how many times each record was written to the event sink
    run,        \* each runner's position and local variables
    temp,       \* the temp files of predownload mode, by generation
    active,     \* the runners the scheduler may invoke
    runs,       \* invocations so far
    conf,       \* the input stanza: feed_type, enable_checkpoint,
                \* enable_predownload
    mmdb,       \* the geo database file at its fixed path
    dir         \* the checkpoint directory of all feed-types, by file name

vars == <<now, lockFile, ckpt, release, payload, sink, run, temp, active, runs,
          conf, mmdb, dir>>

\* What no step of a run of a record feed changes.
fixed == <<release, payload, active, conf, mmdb, dir>>

\* What no step of a run of the geo feed changes.
fixedGeo == <<release, payload, active, conf, ckpt, sink, temp, dir>>

(* ---------------------------- helpers --------------------------------- *)

\* datetime.now(timezone.utc).strftime("%Y%m%d")
Today(t) == t \div TicksPerDay

\* Default of is_lock_stale and cleanup_stale_lock: 86400 seconds, one day.
max_age_seconds == TicksPerDay

NoLockFile == [ino |-> NoIno, mtime |-> 0, body |-> NoProc]

NoCkpt ==
    [exists |-> FALSE, parseable |-> TRUE, offset |-> 0,
     completed_date |-> NoDate, last_touched_date |-> NoDate,
     feed_identifier |-> Unknown, location |-> NoLocation]

\* Number of parseable lines among the first n lines of s.
RECURSIVE ValidUpTo(_, _)
ValidUpTo(s, n) ==
    IF n = 0 THEN 0
    ELSE ValidUpTo(s, n - 1) + (IF s[n] = "ok" THEN 1 ELSE 0)

NValid(s) == ValidUpTo(s, Len(s))

\* A notification created in the host's message board.
Note(kind, from, detail, count) ==
    [kind |-> kind, from |-> from, detail |-> detail, count |-> count]

IdleRun ==
    [pc |-> "idle", fd |-> NoIno, holds |-> FALSE,
     checkpoints_enabled |-> FALSE, predownload_enabled |-> FALSE,
     today |-> NoDate, feed_identifier |-> Unknown,
     start_offset |-> 0, processed |-> 0, offset |-> 0, line |-> 0,
     emitted |-> {}, fetches |-> 0,
     acquired |-> FALSE, outcome |-> "none",
     temp_file_path |-> NoTemp,
     stale_seen |-> "none", probe_hdr |-> FALSE, duplicate_of |-> "none",
     resumed |-> FALSE, was_completed |-> FALSE,
     notified |-> << >>, host |-> "none", error_at |-> "none",
     read_files |-> {}, cleaned |-> {}, networked |-> FALSE,
     after_crash |-> FALSE, refused |-> FALSE, ingested |-> FALSE,
     probes |-> << >>, location_done |-> FALSE, prior_offset |-> 0]

\* The record of a runner whose invocation is over: what the host saw of
\* it (`how`: the call returned, raised, or the process was killed) and
\* the notifications it created.
Ended(r, how) == [IdleRun EXCEPT !.notified = r.notified, !.host = how]

\* stream_events catches the exception of process_feed, creates a failure
\* notification with the error text and raises it to the host.
Raised(r) ==
    Ended([r EXCEPT !.notified =
                Append(@, Note("failure", "stream_events", TRUE, 0))],
          "raised")

Rec(off, done, touched, id) ==
    [exists |-> TRUE, parseable |-> TRUE, offset |-> off,
     completed_date |-> done, last_touched_date |-> touched,
     feed_identifier |-> id, location |-> LatestLocation]

\* The database file: absent; or holding the whole artifact of a
\* generation; or truncated by open(path, "wb"), the artifact not (or not
\* wholly) written.
NoMmdb == [exists |-> FALSE, whole |-> FALSE, of |-> "none"]
WholeMmdb(gen) == [exists |-> TRUE, whole |-> TRUE, of |-> gen]
TruncatedMmdb == [exists |-> TRUE, whole |-> FALSE, of |-> "none"]

\* The generation of the artifact an earlier run installed.
Previous == "g0"

\* A checkpoint file whose content is not a JSON document: open(path, "w")
\* has truncated it and the text was never written.
Garbled == [NoCkpt EXCEPT !.exists = TRUE, !.parseable = FALSE]

\* The checkpoint file of a version that did not yet name the file after
\* the identifier.
LegacyFile == Rec(0, NoDate, NoDate, Legacy)

\* The least inode number neither linked at the lock path nor open anywhere.
FreshIno ==
    LET free == {i \in Inodes : /\ i # lockFile.ino
                                /\ \A q \in Procs : run[q].fd # i}
    IN  CHOOSE i \in free : \A j \in free : i <= j

Set(p, r) == run' = [run EXCEPT ![p] = r]

(* ------------------------ the lock manager ---------------------------- *)

\* True if the lock file is absent or older than max_age.
is_lock_stale(file, t, max_age) ==
    \/ file.ino = NoIno
    \/ t - file.mtime > max_age

\* open(path, "w"): creates the file, or truncates the one there; either
\* way the file's modification time becomes the time of the call.
OpenForWrite(file, t, fresh) ==
    IF file.ino = NoIno
    THEN [ino |-> fresh, mtime |-> t, body |-> NoProc]
    ELSE [file EXCEPT !.mtime = t, !.body = NoProc]

\* Mutation: a shared lock (LOCK_SH) is never refused.
FlockShared(p) == FALSE

\* Mutation: a lock file that is there and not yet stale counts as held.
RefusedByLeftoverFile(p) == run[p].stale_seen = "young"

\* flock(LOCK_EX | LOCK_NB) on p's open file fails when another open file
\* description holds a lock on the same inode.
FlockRefused(p) ==
    \E q \in Procs \ {p} : run[q].holds /\ run[q].fd = run[p].fd

\* Mutation: the checkpoint flag of the stanza is taken as it is.
CheckpointsAsConfigured(feed_type, flag) == flag

\* The first statement of process_feed: the realtime feed-type runs with
\* checkpoints off whatever the stanza says.
EffectiveCheckpoints(feed_type, flag) == flag /\ feed_type # Realtime

\* The checks of stream_events before it calls process_feed or
\* process_geo_feed: a non-empty token, an allowed feed_type.
Configured(c) ==
    /\ c.token = ValidToken
    /\ c.feed_type \in FeedTypes \cup {Geo}

\* stream_events, the token or the feed_type check fails: when the secret
\* store has no secret of the realm and name, next() in
\* get_encrypted_context_api_token raises StopIteration out of
\* stream_events; an empty token and a feed_type that is not allowed get a
\* failure notification and a ValueError.
ConfigError(p) ==
    /\ p \in active
    /\ run[p].pc = "idle"
    /\ ~Configured(conf)
    /\ runs < MaxRuns
    /\ runs' = runs + 1
    /\ Set(p, IF conf.token = MissingToken
              THEN Ended(IdleRun, "raised")
              ELSE Raised(IdleRun))
    /\ UNCHANGED <<now, lockFile, ckpt, sink, temp, fixed>>

\* stream_events calls process_feed with the flags of the input stanza.
Start(p) ==
    /\ p \in active
    /\ run[p].pc = "idle"
    /\ Configured(conf)
    /\ conf.feed_type # Geo
    /\ runs < MaxRuns
    /\ runs' = runs + 1
    /\ Set(p, [IdleRun EXCEPT !.pc = "cleanup_check",
                              !.checkpoints_enabled =
                                  EffectiveCheckpoints(conf.feed_type,
                                                       conf.enable_checkpoint),
                              !.predownload_enabled = conf.enable_predownload,
                              !.after_crash = (run[p].host = "killed")])
    /\ UNCHANGED <<now, lockFile, ckpt, sink, temp, fixed>>

\* cleanup_stale_lock, the staleness test.
CleanupCheck(p) ==
    /\ run[p].pc = "cleanup_check"
    /\ Set(p, [run[p] EXCEPT
                 !.pc = IF is_lock_stale(lockFile, now, max_age_seconds)
                        THEN "cleanup_remove" ELSE "acquire_open",
                 !.stale_seen = IF lockFile.ino = NoIno THEN "absent"
                                ELSE IF now - lockFile.mtime > max_age_seconds
                                THEN "old" ELSE "young"])
    /\ UNCHANGED <<now, lockFile, ckpt, sink, temp, runs, fixed>>

\* cleanup_stale_lock, the removal: whatever file is at the path goes.
CleanupRemove(p) ==
    /\ run[p].pc = "cleanup_remove"
    /\ lockFile' = NoLockFile
    /\ Set(p, [run[p] EXCEPT !.pc = "acquire_open"])
    /\ UNCHANGED <<now, ckpt, sink, temp, runs, fixed>>

\* acquire_lock, the open.
AcquireOpen(p) ==
    /\ run[p].pc = "acquire_open"
    /\ lockFile' = OpenForWrite(lockFile, now, FreshIno)
    /\ Set(p, [run[p] EXCEPT !.pc = "acquire_flock", !.fd = lockFile'.ino])
    /\ UNCHANGED <<now, ckpt, sink, temp, runs, fixed>>

\* Mutation: a refused acquisition is reported to the host as a failure.
RefusedAsFailure(r) == Raised(r)

\* acquire_lock returned None: process_feed logs a warning and returns.
Refused(r) == [Ended(r, "returned") EXCEPT !.refused = TRUE]

\* Mutation: a run whose flock was refused goes on without the lock.
AcquireFlockAnyway(p) ==
    /\ run[p].pc = "acquire_flock"
    /\ IF FlockRefused(p)
       THEN /\ Set(p, [run[p] EXCEPT !.pc = "proxy"])
            /\ UNCHANGED lockFile
       ELSE /\ Set(p, [run[p] EXCEPT !.pc = "proxy", !.holds = TRUE,
                                     !.acquired = TRUE])
            /\ lockFile' = IF lockFile.ino = run[p].fd
                           THEN [lockFile EXCEPT !.mtime = now, !.body = p]
                           ELSE lockFile
    /\ UNCHANGED <<now, ckpt, sink, temp, runs, fixed>>

\* acquire_lock, the flock: on success the holder's pid and the time go
\* into the file; on refusal the file is closed and the run returns.
AcquireFlock(p) ==
    /\ run[p].pc = "acquire_flock"
    /\ IF FlockRefused(p)
       THEN /\ Set(p, Refused(run[p]))
            /\ UNCHANGED lockFile
       ELSE /\ Set(p, [run[p] EXCEPT !.pc = "proxy", !.holds = TRUE,
                                     !.acquired = TRUE])
            /\ lockFile' = IF lockFile.ino = run[p].fd
                           THEN [lockFile EXCEPT !.mtime = now, !.body = p]
                           ELSE lockFile
    /\ UNCHANGED <<now, ckpt, sink, temp, runs, fixed>>

\* release_lock, flock(LOCK_UN) and close.
ReleaseUnlock(p) ==
    /\ run[p].pc = "release_unlock"
    /\ Set(p, [run[p] EXCEPT !.pc = "release_remove", !.holds = FALSE,
                             !.fd = NoIno])
    /\ UNCHANGED <<now, lockFile, ckpt, sink, temp, runs, fixed>>

\* release_lock, the removal of the file at the lock path; process_feed
\* then returns, or the exception it re-raised reaches stream_events.
ReleaseRemove(p) ==
    /\ run[p].pc = "release_remove"
    /\ lockFile' = NoLockFile
    /\ Set(p, IF run[p].outcome = "error"
              THEN Raised(run[p])
              ELSE Ended(run[p], "returned"))
    /\ UNCHANGED <<now, ckpt, sink, temp, runs, fixed>>

\* release_lock, a step of it raises: flock(LOCK_UN) (the lock stays until
\* the handle goes), close (the lock is gone, the file stays) or
\* os.remove (the file stays); the except clause is entered.
ReleaseFails(p, step) ==
    /\ \/ /\ step = "unlock"
          /\ run[p].pc = "release_unlock"
          /\ Set(p, [run[p] EXCEPT !.pc = "release_failed"])
       \/ /\ step = "close"
          /\ run[p].pc = "release_unlock"
          /\ Set(p, [run[p] EXCEPT !.pc = "release_failed", !.holds = FALSE])
       \/ /\ step = "remove"
          /\ run[p].pc = "release_remove"
          /\ Set(p, [run[p] EXCEPT !.pc = "release_failed"])
    /\ UNCHANGED <<now, lockFile, ckpt, sink, temp, runs, fixed>>

\* Mutation: the except clause of release_lock re-raises.
ReleaseRaises(p) ==
    /\ run[p].pc = "release_failed"
    /\ Set(p, Raised(run[p]))
    /\ UNCHANGED <<now, lockFile, ckpt, sink, temp, runs, fixed>>

\* release_lock, the except clause: the error is logged as a warning and
\* release_lock returns; process_feed then returns, or the exception it
\* re-raised reaches stream_events.
ReleaseReturn(p) ==
    /\ run[p].pc = "release_failed"
    /\ Set(p, IF run[p].outcome = "error"
              THEN Raised(run[p])
              ELSE Ended(run[p], "returned"))
    /\ UNCHANGED <<now, lockFile, ckpt, sink, temp, runs, fixed>>

\* get_proxy_settings reads the host's configuration over its REST API.
\* It is called after the acquisition and before the try statement: when
\* it raises, the run ends without release_lock, the process exits and the
\* operating system closes its lock file (the flock goes, the file stays).
GetProxy(p, ok) ==
    /\ run[p].pc = "proxy"
    /\ Set(p, IF ok
              THEN [run[p] EXCEPT !.pc = "metadata"]
              ELSE Raised(run[p]))
    /\ UNCHANGED <<now, lockFile, ckpt, sink, temp, runs, fixed>>

\* Mutation: the metadata error is re-raised without a notification.
MetadataFailedQuietly(r) ==
    [r EXCEPT !.pc = "release_unlock", !.outcome = "error",
              !.error_at = "metadata", !.networked = TRUE]

\* get_feed_metadata raised: a failure notification naming the feed-type
\* (not the error), then the error is re-raised into the finally clause.
MetadataFailed(r) ==
    [r EXCEPT !.pc = "release_unlock", !.outcome = "error",
              !.error_at = "metadata", !.networked = TRUE,
              !.notified = Append(@, Note("failure", "process_feed",
                                          FALSE, 0))]

\* get_feed_metadata (get_feed_metadata_mmdb in process_geo_feed); on an
\* exception: notification, re-raise, finally.
FetchMetadata(p, ok) ==
    /\ run[p].pc = "metadata"
    /\ Set(p, IF ok
              THEN [run[p] EXCEPT !.pc = IF conf.feed_type = Geo
                                         THEN "geo_fetch" ELSE "identity",
                                  !.networked = TRUE]
              ELSE MetadataFailed(run[p]))
    /\ UNCHANGED <<now, lockFile, ckpt, sink, temp, runs, fixed>>

(* ------------------- identity and checkpoint store -------------------- *)

\* What a probe of the release URL can give: the x-goog-generation
\* header, a response without it, or an exception.
ProbeOutcomes == {"hdr", "nohdr", "exc"}

\* Mutation: both probes are always issued.
BothProbes(head) == <<"HEAD", "GET">>

\* The requests get_feed_identifier issues: HEAD, and the ranged GET
\* unless the HEAD response carried the header.
ProbesIssued(head) ==
    IF head = "hdr" THEN <<"HEAD">> ELSE <<"HEAD", "GET">>

\* HEAD first; the ranged GET only when HEAD gave no header; else "unknown".
get_feed_identifier(head, rget, gen) ==
    IF head = "hdr" THEN gen
    ELSE IF rget = "hdr" THEN gen
    ELSE Unknown

\* Mutation: only the files named after an identifier are removed.
cleanup_suffixed_only(files, keep) ==
    [i \in Files |-> IF i = keep \/ i = Legacy THEN files[i] ELSE NoCkpt]

\* Every checkpoint file of the feed-type but the one of `keep` is removed.
cleanup_old_checkpoints(files, keep) ==
    [i \in Files |-> IF i = keep THEN files[i] ELSE NoCkpt]

\* The empty checkpoint when disabled or when the file is absent; the
\* caller asks Unreadable first, for json.loads raises on a garbled file.
get_checkpoint(files, id, enabled) ==
    IF enabled THEN files[id] ELSE NoCkpt

\* get_checkpoint raises: json.loads of the file's content is outside the
\* try statement that guards the read.
Unreadable(files, id, enabled) ==
    enabled /\ files[id].exists /\ ~files[id].parseable

\* The files a call of cleanup_old_checkpoints removes.
Removed(files, keep, enabled) ==
    IF enabled THEN {i \in Files \ {keep} : files[i].exists} ELSE {}

\* The files a call of get_checkpoint opens.
Opened(id, enabled) == IF enabled THEN {id} ELSE {}

\* Mutation: every checkpoint write stamps completed_date with the day.
write_checkpoint_stamped(files, r, off, done) ==
    IF r.checkpoints_enabled
    THEN [files EXCEPT ![r.feed_identifier] =
             Rec(off, r.today, r.today, r.feed_identifier)]
    ELSE files

\* write_checkpoint of the run's checkpoint dict, when checkpoints are on.
write_checkpoint(files, r, off, done) ==
    IF r.checkpoints_enabled
    THEN [files EXCEPT ![r.feed_identifier] =
             Rec(off, done, r.today, r.feed_identifier)]
    ELSE files

\* The checkpoint marks this identifier complete today.
CompletedToday(cp, id, today) ==
    /\ cp.exists
    /\ cp.feed_identifier = id
    /\ cp.completed_date = today

\* Mutation: an unfinished checkpoint is resumed whatever its date.
InProgressAnyDay(cp, id, today) ==
    /\ cp.exists
    /\ cp.feed_identifier = id

\* The checkpoint is of this identifier and was touched today (every
\* checkpoint written has an "offset" key).
InProgressToday(cp, id, today) ==
    /\ cp.exists
    /\ cp.feed_identifier = id
    /\ cp.last_touched_date = today

\* process_feed from identity resolution to the initial checkpoint write:
\* resolve the identifier, clean up the other checkpoints, read this
\* identifier's checkpoint (an exception of that read leaves through the
\* finally clause, past the except branch), then skip, resume or start
\* at 0.
ResolveIdentity(p, head, rget) ==
    /\ run[p].pc = "identity"
    /\ LET r       == run[p]
           id      == get_feed_identifier(head, rget, release)
           cleaned == IF r.checkpoints_enabled
                      THEN cleanup_old_checkpoints(ckpt, id) ELSE ckpt
           cp      == get_checkpoint(cleaned, id, r.checkpoints_enabled)
           today   == Today(now)
           skip    == r.checkpoints_enabled /\ CompletedToday(cp, id, today)
           resume  == /\ r.checkpoints_enabled
                      /\ ~skip
                      /\ InProgressToday(cp, id, today)
           start   == IF resume THEN cp.offset ELSE 0
           seen    == [r EXCEPT !.today = today, !.feed_identifier = id,
                         !.probe_hdr = (head = "hdr" \/ rget = "hdr"),
                         !.cleaned = Removed(ckpt, id, r.checkpoints_enabled),
                         !.read_files = Opened(id, r.checkpoints_enabled),
                         !.ingested =
                            /\ r.checkpoints_enabled
                            /\ ckpt[release].exists
                            /\ ckpt[release].completed_date # NoDate,
                         !.was_completed =
                            /\ r.checkpoints_enabled
                            /\ CompletedToday(ckpt[release], release, today),
                         !.probes = ProbesIssued(head),
                         !.location_done =
                            /\ r.checkpoints_enabled
                            /\ \E i \in Idents \ {Unknown} :
                                  /\ ckpt[i].exists
                                  /\ ckpt[i].completed_date = today
                                  /\ ckpt[i].location = LatestLocation,
                         !.prior_offset =
                            IF /\ r.checkpoints_enabled
                               /\ InProgressToday(ckpt[release], release, today)
                               /\ ~CompletedToday(ckpt[release], release, today)
                            THEN ckpt[release].offset ELSE 0]
       IN  IF Unreadable(cleaned, id, r.checkpoints_enabled)
           THEN /\ ckpt' = cleaned
                /\ Set(p, [seen EXCEPT !.pc = "release_unlock",
                                       !.outcome = "error",
                                       !.error_at = "checkpoint_read"])
           ELSE IF skip
           THEN /\ ckpt' = cleaned
                /\ Set(p, [seen EXCEPT !.pc = "release_unlock",
                                       !.outcome = "skipped",
                                       !.duplicate_of = id])
           ELSE LET go == [seen EXCEPT !.pc = "fetch",
                                       !.start_offset = start,
                                       !.offset = start,
                                       !.resumed = resume]
                IN  /\ ckpt' = write_checkpoint(cleaned, go, start, NoDate)
                    /\ Set(p, go)
    /\ UNCHANGED <<now, lockFile, sink, temp, runs, fixed>>

(* --------------------------- feed fetcher ----------------------------- *)

\* Mutation: the except branch re-raises without writing the checkpoint.
FailedWithoutCheckpoint(p, r) ==
    /\ ckpt' = ckpt
    /\ temp' = IF r.temp_file_path = NoTemp THEN temp
               ELSE temp \ {r.temp_file_path}
    /\ Set(p, [r EXCEPT !.pc = "release_unlock", !.outcome = "error",
                        !.error_at = IF r.pc = "fetch" THEN "payload"
                                     ELSE "stream",
                        !.offset = r.processed,
                        !.notified = Append(@, Note("failure", "process_feed",
                                                    TRUE, 0))])

\* Mutation: the except branch re-raises without removing the temp file.
FailedKeepingTemp(p, r) ==
    /\ ckpt' = write_checkpoint(ckpt, r, r.processed, NoDate)
    /\ temp' = temp
    /\ Set(p, [r EXCEPT !.pc = "release_unlock", !.outcome = "error",
                        !.error_at = IF r.pc = "fetch" THEN "payload"
                                     ELSE "stream",
                        !.offset = r.processed,
                        !.notified = Append(@, Note("failure", "process_feed",
                                                    TRUE, 0))])

\* The except branch of process_feed: the checkpoint is written with
\* offset = processed, a failure notification with the error text is
\* created, the temp file is removed, the error is re-raised and the
\* finally clause releases the lock.
Failed(p, r) ==
    /\ ckpt' = write_checkpoint(ckpt, r, r.processed, NoDate)
    /\ temp' = IF r.temp_file_path = NoTemp THEN temp
               ELSE temp \ {r.temp_file_path}
    /\ Set(p, [r EXCEPT !.pc = "release_unlock", !.outcome = "error",
                        !.error_at = IF r.pc = "fetch" THEN "payload"
                                     ELSE "stream",
                        !.offset = r.processed,
                        !.notified = Append(@, Note("failure", "process_feed",
                                                    TRUE, 0))])

\* The payload request (get_feed_response in stream mode,
\* download_feed_to_temp in predownload mode) and the handling of the
\* identifier its response carries.
FetchPayload(p, res) ==
    /\ run[p].pc = "fetch"
    /\ LET r0 == [run[p] EXCEPT !.fetches = @ + 1]
           id == IF res = "hdr" THEN release ELSE Unknown
           r  == IF r0.predownload_enabled
                 THEN [r0 EXCEPT !.temp_file_path = id] ELSE r0
           late   == r.feed_identifier = Unknown /\ id # Unknown
           actual == get_checkpoint(ckpt, id, r.checkpoints_enabled)
           r1 == IF late
                 THEN [r EXCEPT
                         !.read_files = @ \cup Opened(id, r.checkpoints_enabled)]
                 ELSE r
       IN  IF res = "exc"
           THEN Failed(p, r0)
           ELSE IF late /\ Unreadable(ckpt, id, r.checkpoints_enabled)
           THEN Failed(p, r1)
           ELSE IF late /\ r.checkpoints_enabled
                        /\ CompletedToday(actual, id, r.today)
           THEN /\ Set(p, [r1 EXCEPT !.pc = "release_unlock",
                                     !.outcome = "skipped",
                                     !.duplicate_of = id,
                                     !.temp_file_path = NoTemp])
                /\ temp' = IF r.predownload_enabled
                           THEN temp \ {id} ELSE temp
                /\ UNCHANGED ckpt
           ELSE IF late
           THEN /\ ckpt' = IF r.checkpoints_enabled
                           THEN cleanup_old_checkpoints(ckpt, id) ELSE ckpt
                /\ temp' = IF r.predownload_enabled
                           THEN temp \cup {id} ELSE temp
                /\ Set(p, [r1 EXCEPT
                             !.pc = "loop", !.feed_identifier = id,
                             !.cleaned = @ \cup Removed(ckpt, id,
                                                       r.checkpoints_enabled)])
           ELSE /\ temp' = IF r.predownload_enabled
                           THEN temp \cup {id} ELSE temp
                /\ Set(p, [r EXCEPT !.pc = "loop"])
                /\ UNCHANGED ckpt
    /\ UNCHANGED <<now, lockFile, sink, runs, fixed>>

(* -------------------------- stream processor -------------------------- *)

\* Mutation: an unparseable line is counted as a record.
ParsesAnything(kind) == TRUE

\* json.loads of a line succeeds.
Parses(kind) == kind = "ok"

\* The record is below the resume point: parsed, not emitted.
BelowResumePoint(processed, start_offset) == processed < start_offset

\* One iteration of the record loop (the predownload loop and the stream
\* loop are the same statements): json.loads of the line; an unparseable
\* line is logged and skipped; a record is counted, emitted unless below
\* the resume point, and every CheckpointInterval records the checkpoint
\* is written.
ProcessLine(p) ==
    /\ run[p].pc = "loop"
    /\ run[p].line < Len(payload)
    /\ LET r    == run[p]
           k    == r.line + 1
           n    == r.processed + 1
       IN  IF ~Parses(payload[k])
           THEN /\ Set(p, [r EXCEPT !.line = k])
                /\ UNCHANGED <<ckpt, sink>>
           ELSE IF BelowResumePoint(n, r.start_offset)
           THEN /\ Set(p, [r EXCEPT !.line = k, !.processed = n])
                /\ UNCHANGED <<ckpt, sink>>
           ELSE /\ sink' = [sink EXCEPT ![n] = @ + 1]
                /\ Set(p, [r EXCEPT !.line = k, !.processed = n,
                                    !.offset = n,
                                    !.emitted = @ \cup {n}])
                /\ ckpt' = IF n % CheckpointInterval = 0
                           THEN write_checkpoint(ckpt, r, n, NoDate)
                           ELSE ckpt
    /\ UNCHANGED <<now, lockFile, temp, runs, fixed>>

\* One iteration of the record loop in which ew.write_event raises: the
\* record was counted before the call, the except clause of the loop body
\* logs the error, and the loop goes on with the next line; neither the
\* checkpoint's offset nor the checkpoint file is touched.
SinkWriteFails(p) ==
    /\ run[p].pc = "loop"
    /\ run[p].line < Len(payload)
    /\ LET r == run[p]
           k == r.line + 1
           n == r.processed + 1
       IN  /\ Parses(payload[k])
           /\ ~BelowResumePoint(n, r.start_offset)
           /\ Set(p, [r EXCEPT !.line = k, !.processed = n])
    /\ UNCHANGED <<now, lockFile, ckpt, sink, temp, runs, fixed>>

\* Reading the next line raises (connection reset, truncated gzip data):
\* the exception leaves the loop for the except branch.
StreamFail(p) ==
    /\ run[p].pc = "loop"
    /\ Failed(p, run[p])
    /\ UNCHANGED <<now, lockFile, sink, runs, fixed>>

\* Mutation: every feed-type reports its successes.
AlwaysNotified(feed_type) == TRUE

\* notify_feed_success is called unless the feed-type is a realtime one.
SuccessNotified(feed_type) == feed_type # Realtime

\* The stream is exhausted: completed_date = today, the success
\* notification, the final checkpoint write, the temp file removal; then
\* the finally clause.
Finalize(p) ==
    /\ run[p].pc = "loop"
    /\ run[p].line = Len(payload)
    /\ LET r == run[p]
       IN  /\ ckpt' = write_checkpoint(ckpt, r, r.processed, r.today)
           /\ temp' = IF r.temp_file_path = NoTemp THEN temp
                      ELSE temp \ {r.temp_file_path}
           /\ Set(p, [r EXCEPT !.pc = "release_unlock",
                               !.outcome = "success",
                               !.offset = r.processed,
                               !.notified =
                                   IF SuccessNotified(conf.feed_type)
                                   THEN Append(@, Note("success",
                                                       "process_feed", FALSE,
                                                       r.processed))
                                   ELSE @])
    /\ UNCHANGED <<now, lockFile, sink, runs, fixed>>

(* ----------------------------- geo feed ------------------------------- *)

\* stream_events calls process_geo_feed for the ipgeo feed-type: no
\* checkpoint flag and no predownload flag are passed.
StartGeo(p) ==
    /\ p \in active
    /\ run[p].pc = "idle"
    /\ Configured(conf)
    /\ conf.feed_type = Geo
    /\ runs < MaxRuns
    /\ runs' = runs + 1
    /\ Set(p, [IdleRun EXCEPT !.pc = "cleanup_check",
                              !.after_crash = (run[p].host = "killed")])
    /\ UNCHANGED <<now, lockFile, mmdb, fixedGeo>>

\* The success notification of the geo feed.
GeoSuccessNote == Note("geo_success", "process_geo_feed", FALSE, 0)

\* The except branch of process_geo_feed: a failure notification with the
\* error text, a new exception raised into the finally clause.
GeoFailed(r) ==
    [r EXCEPT !.pc = "release_unlock", !.outcome = "error",
              !.error_at = "geo",
              !.notified = Append(@, Note("failure", "process_geo_feed",
                                          TRUE, 0))]

\* The directories are created and the artifact is requested.
GeoFetch(p, ok) ==
    /\ run[p].pc = "geo_fetch"
    /\ Set(p, IF ok
              THEN [run[p] EXCEPT !.pc = "geo_open", !.fetches = @ + 1]
              ELSE GeoFailed([run[p] EXCEPT !.fetches = @ + 1]))
    /\ UNCHANGED <<now, lockFile, mmdb, runs, fixedGeo>>

\* open(mmdb_file_path, "wb"): the file at the fixed path is created or
\* truncated in place, unless the open itself is refused.
GeoOpen(p, ok) ==
    /\ run[p].pc = "geo_open"
    /\ IF ok
       THEN /\ mmdb' = TruncatedMmdb
            /\ Set(p, [run[p] EXCEPT !.pc = "geo_write"])
       ELSE /\ UNCHANGED mmdb
            /\ Set(p, GeoFailed(run[p]))
    /\ UNCHANGED <<now, lockFile, runs, fixedGeo>>

\* f.write(response.raw.read()): the body is read and written into the
\* open file; then chmod, close and the success notification. When the
\* read or the write raises, the file stays as the open left it.
GeoWrite(p, ok) ==
    /\ run[p].pc = "geo_write"
    /\ IF ok
       THEN /\ mmdb' = WholeMmdb(release)
            /\ Set(p, [run[p] EXCEPT !.pc = "release_unlock",
                                     !.outcome = "success",
                                     !.notified = Append(@, GeoSuccessNote)])
       ELSE /\ UNCHANGED mmdb
            /\ Set(p, GeoFailed(run[p]))
    /\ UNCHANGED <<now, lockFile, runs, fixedGeo>>

(* ----------------------------- crashes -------------------------------- *)

\* The process is killed (host restart, SIGKILL) while it fetches or
\* between two records: no except branch and no finally clause run, the
\* operating system closes the lock file (the flock goes), and the lock
\* file, the checkpoint files and the temp file stay as they are.
Crash(p) ==
    /\ run[p].pc \in {"fetch", "loop"}
    /\ Set(p, Ended(run[p], "killed"))
    /\ UNCHANGED <<now, lockFile, ckpt, sink, temp, runs, fixed>>

\* The process is killed inside a periodic write_checkpoint, between
\* open(path, "w") and file.write: the record was emitted, the checkpoint
\* file is left empty.
CrashInWrite(p) ==
    /\ run[p].pc = "loop"
    /\ run[p].line < Len(payload)
    /\ run[p].checkpoints_enabled
    /\ LET r == run[p]
           n == r.processed + 1
       IN  /\ payload[r.line + 1] = "ok"
           /\ n >= r.start_offset
           /\ n % CheckpointInterval = 0
           /\ sink' = [sink EXCEPT ![n] = @ + 1]
           /\ ckpt' = [ckpt EXCEPT ![r.feed_identifier] = Garbled]
           /\ Set(p, Ended(r, "killed"))
    /\ UNCHANGED <<now, lockFile, temp, runs, fixed>>

(* ------------------------- the remote service ------------------------ *)

\* The service writes the object at the release location again: same
\* location, same lines, a new generation.
Republish ==
    /\ release \in Releases
    /\ release' = Republished
    /\ UNCHANGED <<now, lockFile, ckpt, sink, run, temp, runs, payload,
                   active, conf, mmdb, dir>>

(* ------------------------- file names -------------------------------- *)

\* File names are sequences of the pieces below; no piece is the beginning
\* of another, so two names are equal, or one the beginning of the other,
\* exactly when their sequences are.
Slash == "/"
Backslash == "\\"
Under == "_"
TxtSuffix == ".txt"
LockSuffix == ".lock"

\* The six feed_type values stream_events allows.
FeedTypeNames ==
    {<<"anonymous">>,
     <<"anonymous", "-", "ipv6">>,
     <<"anonymous", "-", "residential">>,
     <<"anonymous", "-", "residential", "-", "ipv6">>,
     <<"anonymous", "-", "residential", Slash, "realtime">>,
     <<"ipgeo">>}

RealtimeName == <<"anonymous", "-", "residential", Slash, "realtime">>

\* Values the x-goog-generation header can have, and the fallback.
IdentifierNames ==
    {<<"g1">>, <<"g2">>, <<"unknown">>,
     <<"g1", Slash, "g2">>, <<"g1", Backslash, "g2">>, <<"g1", Under, "g2">>}

\* str.replace("/", "_").replace("\\", "_")
Sanitize(s) ==
    [k \in 1..Len(s) |-> IF s[k] \in {Slash, Backslash} THEN Under ELSE s[k]]

\* The checkpoint file path below checkpoint_dir.
get_checkpoint_file_path(feed_type, feed_identifier) ==
    feed_type \o <<Under>> \o Sanitize(feed_identifier) \o <<TxtSuffix>>

\* The lock file path below checkpoint_dir.
get_lock_file_path(feed_type) == Sanitize(feed_type) \o <<LockSuffix>>

\* The entry of checkpoint_dir a path goes through: the path itself, or
\* the directory named by what precedes its first "/".
DirEntry(path) ==
    IF \E k \in 1..Len(path) : path[k] = Slash
    THEN SubSeq(path, 1,
                (CHOOSE k \in 1..Len(path) :
                    /\ path[k] = Slash
                    /\ \A j \in 1..(k - 1) : path[j] # Slash) - 1)
    ELSE path

\* str.startswith and str.endswith
StartsWith(s, prefix) ==
    /\ Len(prefix) <= Len(s)
    /\ SubSeq(s, 1, Len(prefix)) = prefix

EndsWith(s, suffix) ==
    /\ Len(suffix) <= Len(s)
    /\ SubSeq(s, Len(s) - Len(suffix) + 1, Len(s)) = suffix

\* Mutation: the pattern is the feed_type without the underscore.
removes_by_feed_type_prefix(feed_type, current_feed_identifier, filename) ==
    \/ /\ StartsWith(filename, feed_type)
       /\ EndsWith(filename, <<TxtSuffix>>)
       /\ filename # feed_type \o <<Under>> \o current_feed_identifier
                                \o <<TxtSuffix>>
    \/ filename = feed_type \o <<TxtSuffix>>

\* cleanup_old_checkpoints, the test of one directory entry: the name
\* starts with "<feed_type>_", ends with ".txt" and is not
\* "<feed_type>_<current_feed_identifier>.txt" (the identifier as given,
\* not sanitized), or it is the legacy "<feed_type>.txt".
cleanup_removes(feed_type, current_feed_identifier, filename) ==
    \/ /\ StartsWith(filename, feed_type \o <<Under>>)
       /\ EndsWith(filename, <<TxtSuffix>>)
       /\ filename # feed_type \o <<Under>> \o current_feed_identifier
                                \o <<TxtSuffix>>
    \/ filename = feed_type \o <<TxtSuffix>>

\* The directory: its entries (a name, with the feed-type, the kind and
\* the identifier it was created for) and the last cleanup (its feed_type
\* and the entries it removed).
NoDir == [files |-> {}, by |-> << >>, removed |-> {}]

Entry(name, feed_type, kind, id) ==
    [name |-> name, feed_type |-> feed_type, kind |-> kind, id |-> id]

\* A checkpoint is written for a feed-type and an identifier (the
\* realtime feed-type runs without checkpoints).
WriteCheckpointFile(feed_type, feed_identifier) ==
    /\ feed_type # RealtimeName
    /\ Cardinality(dir.files) < MaxEntries
    /\ dir' = [NoDir EXCEPT
                 !.files = dir.files \cup
                    {Entry(DirEntry(get_checkpoint_file_path(
                                       feed_type, feed_identifier)),
                           feed_type, "checkpoint", feed_identifier)}]
    /\ UNCHANGED <<now, lockFile, ckpt, release, payload, sink, run, temp,
                   active, runs, conf, mmdb>>

\* An earlier version left the legacy checkpoint file of a feed-type.
WriteLegacyFile(feed_type) ==
    /\ feed_type # RealtimeName
    /\ Cardinality(dir.files) < MaxEntries
    /\ dir' = [NoDir EXCEPT
                 !.files = dir.files \cup
                    {Entry(DirEntry(feed_type \o <<TxtSuffix>>),
                           feed_type, "legacy", << >>)}]
    /\ UNCHANGED <<now, lockFile, ckpt, release, payload, sink, run, temp,
                   active, runs, conf, mmdb>>

\* acquire_lock creates the lock file of a feed-type.
CreateLockFile(feed_type) ==
    /\ Cardinality(dir.files) < MaxEntries
    /\ dir' = [NoDir EXCEPT
                 !.files = dir.files \cup
                    {Entry(get_lock_file_path(feed_type),
                           feed_type, "lock", << >>)}]
    /\ UNCHANGED <<now, lockFile, ckpt, release, payload, sink, run, temp,
                   active, runs, conf, mmdb>>

\* cleanup_old_checkpoints over the listing of the directory.
CleanupDir(feed_type, current_feed_identifier) ==
    /\ feed_type # RealtimeName
    /\ LET gone == {f \in dir.files :
                      cleanup_removes(feed_type, current_feed_identifier,
                                      f.name)}
       IN  dir' = [files |-> dir.files \ gone,
                   by |-> feed_type,
                   removed |-> gone]
    /\ UNCHANGED <<now, lockFile, ckpt, release, payload, sink, run, temp,
                   active, runs, conf, mmdb>>

(* ------------------------------ time ---------------------------------- *)

Tick ==
    /\ now < MaxTime
    /\ now' = now + 1
    /\ UNCHANGED <<lockFile, ckpt, sink, run, temp, runs, fixed>>

(* -------------------------- specifications ---------------------------- *)

Step(p) ==
    \/ Start(p)
    \/ CleanupCheck(p)
    \/ CleanupRemove(p)
    \/ AcquireOpen(p)
    \/ AcquireFlock(p)
    \/ \E ok \in BOOLEAN : GetProxy(p, ok)
    \/ \E ok \in BOOLEAN : FetchMetadata(p, ok)
    \/ \E head \in ProbeOutcomes, rget \in ProbeOutcomes :
          ResolveIdentity(p, head, rget)
    \/ \E res \in ProbeOutcomes : FetchPayload(p, res)
    \/ ProcessLine(p)
    \/ StreamFail(p)
    \/ Finalize(p)
    \/ ReleaseUnlock(p)
    \/ ReleaseRemove(p)

Next == Tick \/ \E p \in Procs : Step(p)

\* The input stanzas.
Confs ==
    [feed_type : FeedTypes, enable_checkpoint : BOOLEAN,
     enable_predownload : BOOLEAN, token : {ValidToken}]

\* The input stanzas and secret stores an installation can have.
StanzaConfs ==
    [feed_type : {"anonymous", Bogus}, enable_checkpoint : BOOLEAN,
     enable_predownload : BOOLEAN, token : Tokens]

\* The checkpoint directory before the first run: empty, or holding the
\* legacy file of an earlier version.
InitialFiles ==
    {[i \in Files |-> IF i = Legacy /\ l THEN LegacyFile ELSE NoCkpt] :
        l \in BOOLEAN}

InitCommon ==
    /\ now = 0
    /\ lockFile = NoLockFile
    /\ ckpt \in InitialFiles
    /\ release \in Releases
    /\ sink = [n \in 1..MaxLines |-> 0]
    /\ run = [p \in Procs |-> IdleRun]
    /\ temp = {}
    /\ runs = 0
    /\ conf \in Confs
    /\ mmdb = NoMmdb
    /\ dir = NoDir

\* One runner at a time: the scheduler never overlaps two invocations. A
\* dated feed-type, an empty checkpoint directory.
Init ==
    /\ InitCommon
    /\ conf.feed_type # Realtime
    /\ ~ckpt[Legacy].exists
    /\ payload \in Payloads
    /\ active = {"p1"}

Spec == Init /\ [][Next]_vars

\* One runner at a time, for either feed-type, with or without a legacy
\* checkpoint file, over a payload of parseable lines.
InitFeeds ==
    /\ InitCommon
    /\ payload = [k \in 1..MaxLines |-> "ok"]
    /\ active = {"p1"}

SpecFeeds == InitFeeds /\ [][Next]_vars

\* One runner, while a process outside the scheduler's reach (p3, stuck
\* in a download) holds the lock of the feed-type.
InitHeld ==
    /\ now = 0
    /\ lockFile = [ino |-> 1, mtime |-> 0, body |-> "p3"]
    /\ ckpt \in InitialFiles
    /\ release \in Releases
    /\ sink = [n \in 1..MaxLines |-> 0]
    /\ run = [p \in Procs |->
                IF p = "p3"
                THEN [IdleRun EXCEPT !.pc = "held", !.fd = 1, !.holds = TRUE,
                                     !.acquired = TRUE]
                ELSE IdleRun]
    /\ temp = {}
    /\ runs = 0
    /\ conf \in Confs
    /\ mmdb = NoMmdb
    /\ dir = NoDir
    /\ conf.feed_type # Realtime
    /\ payload = [k \in 1..MaxLines |-> "ok"]
    /\ active = {"p1"}

SpecHeld == InitHeld /\ [][Next]_vars

\* One runner, after the process that held the lock (p3) was killed: its
\* lock file is still at the lock path, nobody holds a lock on it.
InitAbandoned ==
    /\ now = 0
    /\ lockFile = [ino |-> 1, mtime |-> 0, body |-> "p3"]
    /\ ckpt = [i \in Files |-> NoCkpt]
    /\ release \in Releases
    /\ sink = [n \in 1..MaxLines |-> 0]
    /\ run = [p \in Procs |->
                IF p = "p3" THEN Ended(IdleRun, "killed") ELSE IdleRun]
    /\ temp = {}
    /\ runs = 0
    /\ conf \in Confs
    /\ mmdb = NoMmdb
    /\ dir = NoDir
    /\ payload = [k \in 1..MaxLines |-> "ok"]
    /\ active = {"p1"}

SpecAbandoned == InitAbandoned /\ [][Next]_vars

\* One runner at a time, of a dated feed-type with checkpoints, while the
\* service may republish the release.
InitRepublish ==
    /\ InitCommon
    /\ conf.feed_type # Realtime
    /\ conf.enable_checkpoint
    /\ ~ckpt[Legacy].exists
    /\ payload = [k \in 1..MaxLines |-> "ok"]
    /\ active = {"p1"}

NextRepublish == Next \/ Republish

SpecRepublish == InitRepublish /\ [][NextRepublish]_vars

\* One runner at a time, of a dated feed-type with checkpoints, writing to
\* a sink whose writes can fail.
NextSink == Next \/ \E p \in Procs : SinkWriteFails(p)

SpecSink == InitRepublish /\ [][NextSink]_vars

\* One runner of the geo feed at a time; an earlier run may have
\* installed an artifact, and a process outside the scheduler's reach (p3)
\* may hold the ipgeo lock.
InitGeo ==
    /\ now = 0
    /\ \E held \in BOOLEAN :
          /\ lockFile = IF held THEN [ino |-> 1, mtime |-> 0, body |-> "p3"]
                        ELSE NoLockFile
          /\ run = [p \in Procs |->
                      IF p = "p3" /\ held
                      THEN [IdleRun EXCEPT !.pc = "held", !.fd = 1,
                                           !.holds = TRUE, !.acquired = TRUE]
                      ELSE IdleRun]
    /\ ckpt \in InitialFiles
    /\ release \in Releases
    /\ sink = [n \in 1..MaxLines |-> 0]
    /\ temp = {}
    /\ runs = 0
    /\ conf \in [feed_type : {Geo}, enable_checkpoint : BOOLEAN,
                  enable_predownload : BOOLEAN, token : {ValidToken}]
    /\ mmdb \in {NoMmdb, WholeMmdb(Previous)}
    /\ dir = NoDir
    /\ payload = [k \in 1..MaxLines |-> "ok"]
    /\ active = {"p1"}

StepGeo(p) ==
    \/ StartGeo(p)
    \/ CleanupCheck(p)
    \/ CleanupRemove(p)
    \/ AcquireOpen(p)
    \/ AcquireFlock(p)
    \/ \E ok \in BOOLEAN : GetProxy(p, ok)
    \/ \E ok \in BOOLEAN : FetchMetadata(p, ok)
    \/ \E ok \in BOOLEAN : GeoFetch(p, ok)
    \/ \E ok \in BOOLEAN : GeoOpen(p, ok)
    \/ \E ok \in BOOLEAN : GeoWrite(p, ok)
    \/ ReleaseUnlock(p)
    \/ ReleaseRemove(p)

NextGeo == Tick \/ \E p \in Procs : StepGeo(p)

SpecGeo == InitGeo /\ [][NextGeo]_vars

\* One runner at a time, for every stanza and secret store, over a payload
\* of parseable lines.
InitConfig ==
    /\ now = 0
    /\ lockFile = NoLockFile
    /\ ckpt = [i \in Files |-> NoCkpt]
    /\ release \in Releases
    /\ sink = [n \in 1..MaxLines |-> 0]
    /\ run = [p \in Procs |-> IdleRun]
    /\ temp = {}
    /\ runs = 0
    /\ conf \in StanzaConfs
    /\ mmdb = NoMmdb
    /\ dir = NoDir
    /\ payload = [k \in 1..MaxLines |-> "ok"]
    /\ active = {"p1"}

NextConfig == Next \/ \E p \in Procs : ConfigError(p)

SpecConfig == InitConfig /\ [][NextConfig]_vars

\* One runner at a time, streaming without checkpoints, whose release of
\* the lock can fail at each of its steps.
InitRelease ==
    /\ InitCommon
    /\ conf.feed_type # Realtime
    /\ ~conf.enable_checkpoint
    /\ ~conf.enable_predownload
    /\ ~ckpt[Legacy].exists
    /\ payload = [k \in 1..MaxLines |-> "ok"]
    /\ active = {"p1"}

NextRelease ==
    \/ Next
    \/ \E p \in Procs :
          \/ \E step \in {"unlock", "close", "remove"} : ReleaseFails(p, step)
          \/ ReleaseReturn(p)

SpecRelease == InitRelease /\ [][NextRelease]_vars

\* The checkpoint directory shared by the inputs of all feed-types; no
\* runner is followed, only the files that come and go.
InitDir ==
    /\ now = 0
    /\ lockFile = NoLockFile
    /\ ckpt = [i \in Files |-> NoCkpt]
    /\ release = "g1"
    /\ sink = [n \in 1..MaxLines |-> 0]
    /\ run = [p \in Procs |-> IdleRun]
    /\ temp = {}
    /\ runs = 0
    /\ conf = [feed_type |-> "anonymous", enable_checkpoint |-> TRUE,
               enable_predownload |-> FALSE, token |-> ValidToken]
    /\ mmdb = NoMmdb
    /\ dir = NoDir
    /\ payload = [k \in 1..MaxLines |-> "ok"]
    /\ active = {}

NextDir ==
    \E feed_type \in FeedTypeNames :
        \/ \E id \in IdentifierNames : WriteCheckpointFile(feed_type, id)
        \/ WriteLegacyFile(feed_type)
        \/ CreateLockFile(feed_type)
        \/ \E id \in IdentifierNames : CleanupDir(feed_type, id)

SpecDir == InitDir /\ [][NextDir]_vars

\* One runner at a time, whose process can be killed.
NextCrash == Next \/ \E p \in Procs : Crash(p) \/ CrashInWrite(p)

SpecCrash == Init /\ [][NextCrash]_vars

\* Overlapping invocations by two separate processes, over a payload of
\* one record; no lock file exists at the start.
InitConc ==
    /\ InitCommon
    /\ conf.feed_type # Realtime
    /\ ~ckpt[Legacy].exists
    /\ payload = <<"ok">>
    /\ active = {"p1", "p2"}

SpecConc == InitConc /\ [][Next]_vars

\* Contenders at the door of acquire_lock, nobody holding the lock; the
\* lock file is absent or was left behind by a holder that died.
InitAcquire ==
    /\ now = 0
    /\ ckpt = [i \in Files |-> NoCkpt]
    /\ release \in Releases
    /\ sink = [n \in 1..MaxLines |-> 0]
    /\ temp = {}
    /\ runs = 0
    /\ conf \in Confs
    /\ mmdb = NoMmdb
    /\ dir = NoDir
    /\ payload = <<"ok">>
    /\ active \in {S \in SUBSET Procs : Cardinality(S) >= 2}
    /\ lockFile \in {NoLockFile, [ino |-> 1, mtime |-> 0, body |-> NoProc]}
    /\ run = [p \in Procs |->
                IF p \in active
                THEN [IdleRun EXCEPT !.pc = "acquire_open",
                        !.checkpoints_enabled =
                            EffectiveCheckpoints(conf.feed_type,
                                                 conf.enable_checkpoint),
                        !.predownload_enabled = conf.enable_predownload]
                ELSE IdleRun]

NextAcquire == Tick \/ \E p \in Procs : AcquireOpen(p) \/ AcquireFlock(p)

SpecAcquire == InitAcquire /\ [][NextAcquire]_vars

(* ------------------------------ claims -------------------------------- *)

Emitted(p) == run[p].emitted
Valid == NValid(payload)

\* C1: within one UTC day, with checkpoints enabled, no record is written
\* to the sink twice, and once a run has completed (a success or a
\* duplicate skip) every record of the payload has been written exactly
\* once.
ExactlyOncePerDay ==
    (conf.enable_checkpoint /\ Today(now) = 0) =>
        /\ \A n \in 1..MaxLines : sink[n] <= 1
        /\ (\E p \in Procs : run[p].outcome \in {"success", "skipped"})
              => \A n \in 1..Valid : sink[n] = 1

\* C2: a run that resumes from a checkpoint with offset N emits none of
\* the records 1..N, and when it succeeds it has emitted exactly the
\* records N+1..end.
ResumeCorrectness ==
    \A p \in Procs :
        run[p].resumed =>
            /\ Emitted(p) \cap (1..run[p].start_offset) = {}
            /\ run[p].outcome = "success"
                  => Emitted(p) = (run[p].start_offset + 1)..Valid

\* C3: a run that found the release's checkpoint complete for today makes
\* no payload request and writes nothing to the sink.
IdempotentCompletion ==
    \A p \in Procs :
        run[p].was_completed => run[p].fetches = 0 /\ Emitted(p) = {}

\* Between a successful acquire_lock and the end of release_lock.
InCritical(p) ==
    run[p].pc \in {"proxy", "metadata", "identity", "fetch", "loop",
                   "release_unlock", "release_remove"}

\* C4: at most one process is between its successful acquire_lock and the
\* end of its release_lock.
MutualExclusion ==
    \A p, q \in Procs : (InCritical(p) /\ InCritical(q)) => p = q

Attempted == {p \in active : run[p].pc \notin {"acquire_open", "acquire_flock"}}
Won == {p \in active : run[p].pc = "proxy" /\ run[p].holds}

\* C5: of the concurrent attempts to acquire the lock of one feed-type,
\* never more than one holds it, and once all have been made exactly one
\* succeeded and every other one returned no handle.
LockExclusion ==
    /\ Cardinality(Won) <= 1
    /\ Attempted = active =>
          /\ Cardinality(Won) = 1
          /\ \A p \in active \ Won : run[p].pc = "idle" /\ ~run[p].holds

\* Two contenders have both made their attempt: one holds the lock, the
\* other was refused.
LockExclusionWitness ==
    /\ Cardinality(active) = 2
    /\ Attempted = active
    /\ \E p, q \in active :
          /\ run[p].pc = "proxy" /\ run[p].holds
          /\ run[q].pc = "idle"

\* C6: a run that acquired the lock ends only through release_lock, which
\* leaves no lock file.
LockAlwaysReleased ==
    [][\A p \in Procs :
          (run[p].acquired /\ run'[p].pc = "idle") =>
              (run[p].pc = "release_remove" /\ lockFile'.ino = NoIno)]_vars

\* C7: no checkpoint write stores an offset below the one the file held.
OffsetNeverRegressed ==
    [][\A i \in Idents :
          (ckpt[i].exists /\ ckpt'[i].exists) =>
              ckpt'[i].offset >= ckpt[i].offset]_vars

\* C8: the cleanup removes a lock file older than max_age_seconds and the
\* attempt that follows acquires the lock; the cleanup removes no lock
\* file that is younger.
StaleLockReclamation ==
    [][\A p \in Procs :
          /\ (CleanupCheck(p) /\ lockFile.ino # NoIno
                /\ now - lockFile.mtime > max_age_seconds)
                => run'[p].pc = "cleanup_remove"
          /\ (CleanupRemove(p) /\ lockFile.ino # NoIno)
                => /\ now - lockFile.mtime > max_age_seconds
                   /\ lockFile'.ino = NoIno
          /\ (AcquireFlock(p) /\ run[p].stale_seen = "old")
                => run'[p].acquired]_vars

\* C9: without a generation header from either probe the identifier is
\* "unknown", and no run is skipped as the duplicate of an "unknown" run.
IdentifierFallback ==
    \A p \in Procs :
        /\ (run[p].pc = "fetch" /\ ~run[p].probe_hdr)
              => run[p].feed_identifier = Unknown
        /\ run[p].duplicate_of # Unknown

\* C10: a fresh run (start offset 0) has at every point of the record
\* loop emitted exactly the parseable lines read so far; an unparseable
\* line never ends the loop in error; and the run that exhausts the
\* stream succeeds with every parseable line emitted and the final offset
\* equal to their number.
MalformedLineTolerance ==
    /\ [](\A p \in Procs :
            (run[p].start_offset = 0 /\ ~run[p].resumed) =>
              /\ run[p].pc = "loop" =>
                    /\ run[p].processed = ValidUpTo(payload, run[p].line)
                    /\ Emitted(p) = 1..run[p].processed
                    /\ run[p].offset = run[p].processed
              /\ run[p].outcome = "success" =>
                    /\ Emitted(p) = 1..Valid
                    /\ run[p].offset = Valid
                    /\ run[p].checkpoints_enabled =>
                          /\ ckpt[run[p].feed_identifier].offset = Valid
                          /\ ckpt[run[p].feed_identifier].completed_date
                                = run[p].today)
    /\ [][\A p \in Procs :
            (run[p].pc = "loop" /\ run'[p].pc # "loop") =>
                \/ StreamFail(p)
                \/ (run[p].line = Len(payload) /\ run'[p].outcome = "success")]_vars

\* A fresh run over a payload with an unparseable line has succeeded with
\* the other lines emitted.
MalformedLineWitness ==
    \E p \in Procs :
        /\ run[p].outcome = "success"
        /\ run[p].start_offset = 0
        /\ \E k \in 1..Len(payload) : payload[k] = "bad"
        /\ Emitted(p) = 1..(MaxLines - 1)
        /\ run[p].offset = MaxLines - 1

\* C11: once a run with checkpoints enabled has succeeded with identifier
\* G2, no checkpoint file of another identifier and no legacy checkpoint
\* file of the feed-type is left, and the file of G2 records the completed
\* run.
CheckpointCleanup ==
    \A p \in Procs :
        (run[p].outcome = "success" /\ run[p].checkpoints_enabled) =>
            /\ \A i \in Files \ {run[p].feed_identifier} : ~ckpt[i].exists
            /\ ckpt[run[p].feed_identifier] =
                  Rec(run[p].processed, run[p].today, run[p].today,
                      run[p].feed_identifier)

\* A run has succeeded under a release identifier after its cleanups
\* removed the legacy file and the file of another identifier.
CheckpointCleanupWitness ==
    \E p \in Procs :
        /\ run[p].outcome = "success"
        /\ run[p].checkpoints_enabled
        /\ run[p].feed_identifier \in Releases
        /\ run[p].cleaned = {Legacy, Unknown}

\* C12: for the realtime feed-type no step of any run writes or deletes a
\* checkpoint file, no run opens one for reading, and every run starts at
\* offset 0, whatever the checkpoint flag of the stanza.
RealtimeBypass ==
    [][conf.feed_type = Realtime =>
          /\ ckpt' = ckpt
          /\ \A p \in Procs :
                /\ run'[p].read_files = {}
                /\ run'[p].cleaned = {}
                /\ run'[p].start_offset = 0
                /\ ~run'[p].resumed
                /\ run'[p].outcome = "success" =>
                      Emitted(p) = 1..Valid]_vars

\* A realtime stanza with the checkpoint flag set and a legacy file in the
\* directory: a run has succeeded after an earlier run had delivered the
\* first record, too.
RealtimeBypassWitness ==
    /\ conf.feed_type = Realtime
    /\ conf.enable_checkpoint
    /\ ckpt[Legacy].exists
    /\ sink[1] = 2
    /\ \E p \in Procs : run[p].outcome = "success"

\* C13: reading the checkpoint never ends a run in error, and a run
\* without checkpoints starts at offset 0.
CheckpointReadNeverFails ==
    \A p \in Procs :
        /\ run[p].error_at # "checkpoint_read"
        /\ (run[p].pc = "fetch" /\ ~run[p].checkpoints_enabled)
              => run[p].start_offset = 0

\* C14: with checkpoints enabled, a run whose identity probes name a
\* release that an earlier run ingested to completion emits none of its
\* records again.
NeverIngestedTwice ==
    \A p \in Procs :
        (run[p].checkpoints_enabled /\ run[p].ingested /\ run[p].probe_hdr)
            => Emitted(p) = {}

\* C15: the step in which acquire_lock is refused ends the run: the call
\* returns to the host, which sees no exception; up to and including that
\* step the run made no network request and created no notification, and
\* the step changes no checkpoint file and writes nothing to the sink.
LockContentionSilent ==
    [][\A p \in Procs :
          (run[p].pc = "acquire_flock" /\ FlockRefused(p)
              /\ run'[p] # run[p]) =>
              /\ run'[p].pc = "idle"
              /\ run'[p].host = "returned"
              /\ run'[p].notified = << >>
              /\ ~run[p].networked
              /\ run[p].fetches = 0
              /\ ckpt' = ckpt
              /\ sink' = sink
              /\ temp' = temp]_vars

\* A run was refused the lock, with a checkpoint file in the directory.
LockContentionWitness ==
    \E p \in Procs :
        /\ run[p].refused
        /\ run[p].host = "returned"
        /\ \E i \in Files : ckpt[i].exists

\* C16: when the payload request or the record loop raises with
\* checkpoints enabled, the same step writes the checkpoint with offset =
\* records processed so far (0 at the request) and no completed_date and
\* creates one failure notification with the error text; the run goes on
\* to release the lock, and then the host sees the exception.
FailureFinalization ==
    [][\A p \in Procs :
          /\ (run[p].pc \in {"fetch", "loop"} /\ run'[p].outcome = "error"
                /\ run[p].checkpoints_enabled) =>
                /\ ckpt'[run'[p].feed_identifier] =
                      Rec(run[p].processed, NoDate, run[p].today,
                          run'[p].feed_identifier)
                /\ run[p].pc = "fetch" =>
                      ckpt'[run'[p].feed_identifier].offset = 0
                /\ run'[p].notified =
                      <<Note("failure", "process_feed", TRUE, 0)>>
                /\ run'[p].pc = "release_unlock"
          /\ (run[p].outcome = "error" /\ run'[p].pc = "idle") =>
                run'[p].host = "raised"]_vars

\* A run with checkpoints enabled has failed in the record loop after at
\* least one record; the checkpoint file holds its offset.
FailureFinalizationWitness ==
    \E p \in Procs :
        /\ run[p].outcome = "error"
        /\ run[p].error_at = "stream"
        /\ run[p].checkpoints_enabled
        /\ run[p].processed > 0
        /\ ckpt[run[p].feed_identifier].offset = run[p].processed
        /\ ckpt[run[p].feed_identifier].completed_date = NoDate

\* C17: a run that has exhausted the stream has, with checkpoints enabled,
\* written a checkpoint with completed_date = today and offset = records
\* processed, and has created a success notification with that count
\* exactly when the feed-type is not the realtime one.
SuccessFinalization ==
    \A p \in Procs :
        run[p].outcome = "success" =>
            /\ run[p].checkpoints_enabled =>
                  /\ ckpt[run[p].feed_identifier].completed_date = run[p].today
                  /\ ckpt[run[p].feed_identifier].offset = run[p].processed
            /\ run[p].processed = Valid
            /\ run[p].notified =
                  IF conf.feed_type # Realtime
                  THEN <<Note("success", "process_feed", FALSE,
                              run[p].processed)>>
                  ELSE << >>

\* A run of a dated feed-type has succeeded with checkpoints enabled and
\* reported all its records.
SuccessFinalizationWitness ==
    \E p \in Procs :
        /\ run[p].outcome = "success"
        /\ run[p].checkpoints_enabled
        /\ conf.feed_type # Realtime
        /\ run[p].notified =
              <<Note("success", "process_feed", FALSE, MaxLines)>>
        /\ ckpt[run[p].feed_identifier].completed_date = Today(now)

\* The checkpoint offset on disk for the identifier of p's run.
Persisted(p) ==
    IF ckpt[run[p].feed_identifier].exists
    THEN ckpt[run[p].feed_identifier].offset
    ELSE 0

\* The records p's run wrote to the sink that the sink already had.
Redone(p) == {n \in Emitted(p) : sink[n] >= 2}

\* C18 (during the run): with checkpoints enabled, fewer than
\* CheckpointInterval of the records the run has emitted lie beyond the
\* offset on disk.
EmittedBeyondPersisted ==
    \A p \in Procs :
        (run[p].checkpoints_enabled /\ run[p].pc = "loop") =>
            Cardinality({n \in Emitted(p) : n > Persisted(p)})
                < CheckpointInterval

\* C18: with checkpoints enabled, fewer than CheckpointInterval emitted
\* records lie beyond the offset on disk at every point of a run, and the
\* run that follows a crash emits again at most CheckpointInterval records.
PeriodicCheckpointBound ==
    /\ EmittedBeyondPersisted
    /\ \A p \in Procs :
          (run[p].checkpoints_enabled /\ run[p].after_crash) =>
              Cardinality(Redone(p)) <= CheckpointInterval

\* The positions of a run before its first call that touches checkpoints.
BeforeIdentity ==
    {"cleanup_check", "cleanup_remove", "acquire_open", "acquire_flock",
     "proxy", "metadata"}

\* C19: when the metadata request raises, the run creates a failure
\* notification and heads for the release of the lock; no step of the run,
\* before or after, changes a checkpoint file; and the run ends with the
\* lock released, its file removed, and the exception raised to the host.
MetadataErrorHandling ==
    [][\A p \in Procs :
          /\ (run[p].pc = "metadata" /\ run'[p].pc \notin {"metadata", "identity"}) =>
                /\ run'[p].outcome = "error"
                /\ run'[p].pc = "release_unlock"
                /\ run'[p].notified =
                      <<Note("failure", "process_feed", FALSE, 0)>>
          /\ (run[p].pc \in BeforeIdentity \/ run[p].error_at = "metadata") =>
                ckpt' = ckpt
          /\ (run[p].error_at = "metadata" /\ run'[p].pc = "idle") =>
                /\ ~run[p].holds
                /\ lockFile'.ino = NoIno
                /\ run'[p].host = "raised"]_vars

\* A run has ended on a metadata error, with a checkpoint file of an
\* earlier run in the directory: the host saw the exception after the
\* notification of process_feed and the one of stream_events.
MetadataErrorWitness ==
    \E p \in Procs :
        /\ run[p].host = "raised"
        /\ run[p].notified =
              <<Note("failure", "process_feed", FALSE, 0),
                Note("failure", "stream_events", TRUE, 0)>>
        /\ lockFile.ino = NoIno
        /\ \E i \in Files : ckpt[i].exists

\* C20: with checkpoints enabled, the step that resolves the identifier
\* (a) ends the run as a skip, without a payload request, when the
\* identifier's checkpoint is complete for today; (b) goes on with start
\* offset = the checkpoint's offset when that checkpoint was touched today
\* and is not complete; (c) goes on with start offset 0 otherwise; and
\* leaves no checkpoint file of another identifier.
SkipResumeRestart ==
    [][\A p \in Procs :
          (run[p].pc = "identity" /\ run'[p].pc # "identity"
              /\ run[p].checkpoints_enabled) =>
              LET id    == run'[p].feed_identifier
                  cp    == ckpt[id]
                  today == Today(now)
              IN  /\ (cp.exists /\ cp.completed_date = today) =>
                        /\ run'[p].outcome = "skipped"
                        /\ run'[p].pc = "release_unlock"
                        /\ run'[p].fetches = 0
                  /\ (cp.exists /\ cp.completed_date # today
                        /\ cp.last_touched_date = today) =>
                        /\ run'[p].pc = "fetch"
                        /\ run'[p].start_offset = cp.offset
                  /\ (~cp.exists \/ (cp.completed_date # today
                                       /\ cp.last_touched_date # today)) =>
                        /\ run'[p].pc = "fetch"
                        /\ run'[p].start_offset = 0
                  /\ \A i \in Files \ {id} : ~ckpt'[i].exists]_vars

\* A run with checkpoints enabled has resolved its identifier and resumes
\* at an offset above 0.
SkipResumeRestartWitness ==
    \E p \in Procs :
        /\ run[p].pc = "fetch"
        /\ run[p].checkpoints_enabled
        /\ run[p].resumed
        /\ run[p].start_offset > 0

\* C21: a run that found a checkpoint of the feed-type completed today for
\* the location its metadata names makes no payload request and emits
\* nothing, whatever generation its probes report for that location.
ScheduleCheckOnLocation ==
    \A p \in Procs :
        (run[p].location_done /\ run[p].probe_hdr) =>
            /\ run[p].fetches = 0
            /\ Emitted(p) = {}

\* C22: the checkpoint file of a generation is removed only by the step
\* in which a run of another generation completes.
SupersessionTiming ==
    [][\A p \in Procs : \A i \in Idents \ {Unknown} :
          (/\ run'[p].feed_identifier \in Idents \ {Unknown, i}
           /\ run'[p] # run[p]
           /\ ckpt[i].exists
           /\ ~ckpt'[i].exists) =>
              run'[p].outcome = "success"]_vars

\* C23: every read, write and deletion of a checkpoint file by a run
\* happens while that run holds the lock it acquired, and the step in
\* which a run is refused the lock touches no checkpoint file, nor has
\* that run touched one before.
CheckpointUnderLock ==
    [][/\ (ckpt' # ckpt) =>
            \E p \in Procs : /\ run'[p] # run[p]
                             /\ run[p].acquired
                             /\ run[p].holds
       /\ \A p \in Procs :
            (\/ run'[p].read_files \ run[p].read_files # {}
             \/ run'[p].cleaned \ run[p].cleaned # {}) =>
                 run[p].acquired /\ run[p].holds
       /\ \A p \in Procs :
            (run'[p].refused /\ ~run[p].refused) =>
                 /\ ckpt' = ckpt
                 /\ run[p].read_files = {}
                 /\ run[p].cleaned = {}]_vars

\* A run holds the lock it acquired, has read its checkpoint file and has
\* written it, while the earlier holder is still there.
CheckpointUnderLockWitness ==
    \E p \in active :
        /\ run[p].holds
        /\ run[p].acquired
        /\ run[p].read_files # {}
        /\ ckpt[run[p].feed_identifier].exists
        /\ run["p3"].holds

\* C24: identity resolution issues the HEAD probe first and no GET when
\* the HEAD response carries the generation header; it issues the ranged
\* GET exactly when the HEAD probe raised or carried no header; the
\* identifier is "unknown" exactly when neither probe gave the header;
\* and whatever the two probes do, the run goes on with an identifier
\* (an error of the step is one of the checkpoint read that follows).
IdentityResolutionProtocol ==
    [][\A p \in Procs : \A head \in ProbeOutcomes, rget \in ProbeOutcomes :
          ResolveIdentity(p, head, rget) =>
              /\ run'[p].probes[1] = "HEAD"
              /\ (head = "hdr") <=> (run'[p].probes = <<"HEAD">>)
              /\ (head # "hdr") <=> (run'[p].probes = <<"HEAD", "GET">>)
              /\ (run'[p].feed_identifier = Unknown) <=>
                     (head # "hdr" /\ rget # "hdr")
              /\ run'[p].feed_identifier \in {release, Unknown}
              /\ run'[p].pc \in {"fetch", "release_unlock"}
              /\ (run'[p].outcome = "error") =>
                     run'[p].error_at = "checkpoint_read"]_vars

\* Both probes raised, or gave no header, and the run goes on to the
\* payload request with the identifier "unknown".
IdentityResolutionWitness ==
    \E p \in Procs :
        /\ run[p].pc = "fetch"
        /\ run[p].probes = <<"HEAD", "GET">>
        /\ run[p].feed_identifier = Unknown
        /\ ~run[p].probe_hdr

\* The run resolved "unknown" from the probes and learnt the identifier
\* from the payload response.
LateDiscovery(p) ==
    /\ run[p].checkpoints_enabled
    /\ run[p].probes # << >>
    /\ ~run[p].probe_hdr
    /\ \/ run[p].feed_identifier # Unknown
       \/ run[p].outcome = "skipped" /\ run[p].duplicate_of # Unknown

\* C25: a run that learns the identifier G from the payload response
\* emits no record when G's checkpoint, as it was before the run, was
\* completed today, and resumes from the offset of that checkpoint when
\* G was in progress today.
LateIdentifierDiscovery ==
    \A p \in Procs :
        LateDiscovery(p) =>
            /\ run[p].was_completed => Emitted(p) = {}
            /\ run[p].prior_offset > 0 =>
                   run[p].start_offset = run[p].prior_offset

\* C26: when a run has persisted a checkpoint with completed_date set,
\* every record of the payload above the run's start offset was written
\* to the sink by that run, and the persisted offset counts no record
\* whose sink write raised.
NoSilentLoss ==
    \A p \in Procs :
        (/\ run[p].checkpoints_enabled
         /\ run[p].outcome = "success"
         /\ ckpt[run[p].feed_identifier].completed_date = run[p].today) =>
            \A n \in (run[p].start_offset + 1)..
                      ckpt[run[p].feed_identifier].offset :
                n \in Emitted(p)

\* C27: a checkpoint file gets a completed_date only in the step in which
\* a run that has read its payload to the end without an exception
\* finishes successfully; every other write of a checkpoint file (the
\* initial, the periodic and the failure write) carries no completed_date.
CompletedOnlyOnSuccess ==
    [][\A i \in Files :
          (ckpt'[i] # ckpt[i] /\ ckpt'[i].completed_date # NoDate) =>
              \E p \in Procs :
                  /\ run[p].pc = "loop"
                  /\ run[p].line = Len(payload)
                  /\ run[p].feed_identifier = i
                  /\ run'[p].outcome = "success"
                  /\ ckpt'[i].completed_date = run[p].today]_vars

\* A run over a payload with an unparseable line has read it to the end
\* and persisted the completed checkpoint.
CompletedOnlyOnSuccessWitness ==
    \E p \in Procs :
        /\ run[p].outcome = "success"
        /\ run[p].line = Len(payload)
        /\ Valid < Len(payload)
        /\ ckpt[run[p].feed_identifier].completed_date = run[p].today
        /\ ckpt[run[p].feed_identifier].offset = Valid

\* C28: the invocation that follows a crash ends in an error only when a
\* further failure occurred (of the metadata request, of the payload
\* request or of the stream); otherwise it goes on to process the feed
\* and to persist the completed checkpoint.
CrashRecovery ==
    \A p \in Procs :
        (run[p].after_crash /\ run[p].outcome = "error") =>
            run[p].error_at \in {"metadata", "payload", "stream"}

\* C29: a lock file left at the lock path by a holder that died does not
\* block: no run is refused the lock, and a run that found the file there,
\* younger than the staleness threshold, has acquired the lock once it is
\* past acquire_lock.
AbandonedLockDoesNotBlock ==
    \A p \in Procs :
        /\ ~run[p].refused
        /\ (/\ run[p].stale_seen = "young"
            /\ run[p].pc \notin {"acquire_open", "acquire_flock"}) =>
               run[p].acquired

\* The first run after the holder's death found its lock file, not yet
\* stale, and holds the lock, its own pid in the file.
AbandonedLockWitness ==
    \E p \in active :
        /\ run[p].stale_seen = "young"
        /\ run[p].acquired
        /\ run[p].holds
        /\ lockFile.body = p
        /\ lockFile.ino = 1
        /\ run["p3"].host = "killed"

\* C30: for as long as a holder keeps the lock, the body of the lock file
\* it locked names that holder; a failed attempt of another process
\* leaves the body as it was.
HolderMetadataPreserved ==
    \A q \in Procs :
        (run[q].holds /\ lockFile.ino = run[q].fd) => lockFile.body = q

\* C31: the database file is never a partial artifact: whenever the file
\* exists it holds a whole artifact, and after a geo run has failed it is
\* absent or the whole artifact it was before.
GeoReplacementAllOrNothing ==
    /\ mmdb.exists => mmdb.whole
    /\ \A p \in Procs :
          (run[p].outcome = "error" /\ run[p].error_at = "geo") =>
              mmdb \in {NoMmdb, WholeMmdb(Previous), WholeMmdb(release)}

\* C32: a run of the geo feed touches no checkpoint file; it makes its
\* requests and writes the database file only while it holds the lock it
\* acquired; a run that is refused the lock has done no work; and a run
\* that fails has emitted a failure notification of its own and has
\* released the lock (not held, lock file removed) when the error reaches
\* the host.
GeoOrchestration ==
    [][conf.feed_type = Geo =>
          /\ ckpt' = ckpt
          /\ \A p \in Procs :
                /\ run'[p].read_files = {}
                /\ run'[p].cleaned = {}
                /\ (\/ run'[p].networked /\ ~run[p].networked
                    \/ run'[p].fetches > run[p].fetches
                    \/ run'[p] # run[p] /\ mmdb' # mmdb) =>
                       run[p].acquired /\ run[p].holds
                /\ (run'[p].refused /\ ~run[p].refused) =>
                       /\ mmdb' = mmdb
                       /\ ~run[p].networked
                       /\ run[p].fetches = 0
                /\ (run'[p].host = "raised" /\ run[p].pc # "idle") =>
                       /\ \E k \in 1..Len(run'[p].notified) :
                             /\ run'[p].notified[k].kind = "failure"
                             /\ run'[p].notified[k].from # "stream_events"
                       /\ ~run[p].holds
                       /\ lockFile' = NoLockFile]_vars

\* C33: when the token is missing or empty, or the feed_type is not an
\* allowed one, the invocation ends raised to the host with a failure
\* notification, and it has acquired no lock, made no request, written no
\* event and left the lock file, the checkpoint files and the temp files
\* as they were.
ConfigurationErrors ==
    [][\A p \in Procs :
          (~Configured(conf) /\ run'[p] # run[p]) =>
              /\ run'[p].host = "raised"
              /\ \E k \in 1..Len(run'[p].notified) :
                    run'[p].notified[k].kind = "failure"
              /\ run'[p].pc = "idle"
              /\ ~run'[p].acquired
              /\ ~run'[p].networked
              /\ run'[p].fetches = 0
              /\ <<lockFile, ckpt, sink, temp, mmdb>>' =
                     <<lockFile, ckpt, sink, temp, mmdb>>]_vars

\* The failure notifications a runner's last invocation created.
FailureNotes(p) ==
    {k \in 1..Len(run[p].notified) : run[p].notified[k].kind = "failure"}

\* C34: an invocation that failed and was raised to the host has created
\* exactly one failure notification.
OneNotificationPerFailure ==
    \A p \in Procs :
        run[p].host = "raised" => Cardinality(FailureNotes(p)) = 1

Failures(notes) == {k \in 1..Len(notes) : notes[k].kind = "failure"}

\* C36: release_lock never raises: whichever of its steps fails, the run
\* ends as its outcome says (returned, or raised with the one notification
\* of stream_events for the error it had), and when no step fails the
\* lock is no longer held and the lock file is gone.
ReleaseBestEffort ==
    [][\A p \in Procs :
          /\ (run[p].pc = "release_unlock" /\ run'[p] # run[p]) =>
                /\ run'[p].pc \in {"release_remove", "release_failed"}
                /\ run'[p].outcome = run[p].outcome
          /\ (/\ run[p].pc \in {"release_remove", "release_failed"}
              /\ run'[p].pc = "idle") =>
                /\ run'[p].host = IF run[p].outcome = "error"
                                  THEN "raised" ELSE "returned"
                /\ Cardinality(Failures(run'[p].notified)) =
                      Cardinality(Failures(run[p].notified)) +
                      (IF run[p].outcome = "error" THEN 1 ELSE 0)
                /\ run[p].pc = "release_remove" =>
                      /\ ~run[p].holds
                      /\ run[p].fd = NoIno
                      /\ lockFile' = NoLockFile]_vars

\* A run succeeded, a step of its release failed, and it returned to the
\* host normally; its lock file is still there.
ReleaseBestEffortWitness ==
    \E p \in Procs :
        /\ run[p].pc = "idle"
        /\ run[p].host = "returned"
        /\ ~run[p].refused
        /\ lockFile.body = p
        /\ \E k \in 1..Len(run[p].notified) :
              run[p].notified[k].kind = "success"

\* C37: what a cleanup for a feed-type has removed are checkpoint files
\* of that feed-type: no file of another feed-type and no lock file.
CleanupConfined ==
    \A f \in dir.removed :
        /\ f.feed_type = dir.by
        /\ f.kind \in {"checkpoint", "legacy"}

\* A cleanup removed a checkpoint file of its feed-type, and an entry of
\* another feed-type, or a lock file, whose name begins like the
\* feed-type's stayed in the directory.
CleanupConfinedWitness ==
    /\ \E f \in dir.removed : f.kind = "checkpoint"
    /\ \E g \in dir.files :
          /\ g.feed_type # dir.by \/ g.kind = "lock"
          /\ StartsWith(g.name, dir.by)

\* C38: two checkpoints written for distinct (feed-type, identifier)
\* pairs are in distinct files.
CheckpointPathsDistinct ==
    \A f \in dir.files : \A g \in dir.files :
        (/\ f.kind = "checkpoint"
         /\ g.kind = "checkpoint"
         /\ <<f.feed_type, f.id>> # <<g.feed_type, g.id>>) =>
            f.name # g.name
====
